---- MODULE Spec2Model ----
(***************************************************************************)
(* Phase-coded circular Hough transform of src/module/utils.py:            *)
(* chaccum (vote accumulation in chunks), chcenters (center extraction),   *)
(* chradiiphcode (radius decoding) and imfindcircles (the orchestrator).   *)
(*                                                                         *)
(* Numbers.  Floating point values are held on fixed-point integer grids:  *)
(*   - radii in half units (the arange step 0.5 of line 245);              *)
(*   - complex accumulator values as <<re, im>> in units of 1/Scale;       *)
(*   - smoothed magnitudes (Hd and everything derived from it, the         *)
(*     threshold included) in units of 1/(25*Scale), so that the 5x5 box   *)
(*     average of line 319 is an exact integer sum;                        *)
(*   - decoded radii in units of 1/1000;                                   *)
(*   - phases as octant numbers -4..4 (floor of the angle over pi/4).      *)
(* Image coordinates are 0-based, x = column, y = row, as numpy holds them.*)
(***************************************************************************)
EXTENDS Integers, Sequences, FiniteSets, TLC

(***************************************************************************)
(* Bounds of the model.                                                    *)
(***************************************************************************)
ImgRows == 3
ImgCols == 3
MaxEdgePixels == 2
AccRows == 2
AccCols == 9
MaxPeaks == 2

Scale == 100

VARIABLES
  M, N,                 \* image shape, A.shape (line 263)
  Gfield,               \* output of imgradient: the pixels of non-zero gradient
  radiusRange,          \* the argument [minRadius, maxRadius], in half units
  objPolarity,          \* "bright" or "dark"
  sensitivity,          \* in 1/100
  maxNumElemNHoodMat,   \* working-set cap of line 227
  pc,                   \* position in imfindcircles / chaccum
  err,                  \* the exception that ended the call, "" if none
  E,                    \* edge pixels (Ex, Ey and the gradient there)
  i,                    \* loop variable of line 266
  chunks,               \* the slices [lo, hi) taken at lines 269-271 so far
  accumMatrix,          \* the variable accumMatrix of chaccum / imfindcircles
  accumComplex,         \* the accumulator chaccum returned (line 360)
  regions,              \* regionprops table of chcenters with the raw metric
  centers,              \* centers, as returned / filtered
  metric,               \* metric, as returned / filtered
  r_estimated,          \* radii
  detected              \* sensitivity -> number of circles, of the calls made

vars == <<M, N, Gfield, radiusRange, objPolarity, sensitivity,
          maxNumElemNHoodMat, pc, err, E, i, chunks, accumMatrix,
          accumComplex, regions, centers, metric, r_estimated, detected>>

(***************************************************************************)
(* Arithmetic helpers.                                                     *)
(***************************************************************************)
Min2(a, b) == IF a < b THEN a ELSE b

Max2(a, b) == IF a > b THEN a ELSE b

\* np.round: round half to even, of the rational num/den, den > 0
NpRound(num, den) ==
  LET f == num \div den
      r2 == 2 * (num - f * den)
  IN  IF r2 < den THEN f
      ELSE IF r2 > den THEN f + 1
      ELSE IF f % 2 = 0 THEN f ELSE f + 1

RECURSIVE IsqrtBin(_, _, _)
IsqrtBin(n, lo, hi) ==
  IF lo >= hi THEN lo
  ELSE LET mid == (lo + hi + 1) \div 2
       IN  IF mid * mid <= n THEN IsqrtBin(n, mid, hi)
           ELSE IsqrtBin(n, lo, mid - 1)

\* floor of the square root
Isqrt(n) == IsqrtBin(n, 0, Min2(n, 46340))

\* np.hypot on the gradient vectors
Hypot(gx, gy) == Isqrt(gx * gx + gy * gy)

Cells(m, n) == (0 .. m - 1) \X (0 .. n - 1)

\* raster (row-major, order='C') index of a cell
Raster(cell, n) == cell[1] * n + cell[2]

Zero == <<0, 0>>

CAdd(a, b) == <<a[1] + b[1], a[2] + b[2]>>

\* a numpy array: its entries are computed once, when it is built, and then
\* only looked up
Array(f) == IF f = f THEN f ELSE f

ZeroMatrix(m, n) == [c \in Cells(m, n) |-> Zero]

(***************************************************************************)
(* Inputs.                                                                 *)
(***************************************************************************)
\* gradient vectors (Gx, Gy) of whole-number magnitude, so that hypot is exact
GradVecs == {<<5, 0>>, <<0, -5>>, <<-6, -8>>}

\* imgradient output: raster-ordered pixels whose gradient is not zero
GradientFields(m, n) ==
  {s \in UNION {[1 .. k -> Cells(m, n) \X GradVecs] : k \in 0 .. MaxEdgePixels} :
     \A a \in 1 .. Len(s) - 1 : Raster(s[a][1], n) < Raster(s[a + 1][1], n)}

\* radius ranges [minRadius, maxRadius] in half units: [1,2], [1,1.5], and the
\* invalid [2,2] (one sample), [2,1] (no sample), [0,1] (minRadius = 0)
RadiusRanges == {<<2, 4>>, <<2, 3>>, <<4, 4>>, <<4, 2>>, <<0, 2>>}

Polarities == {"bright", "dark"}

Sensitivities == {80, 95}

\* values of the working-set cap; 1000000 is the one of line 227
WorkingSetCaps == {3, 7, 1000000}

\* the 8-bit cut cv2.threshold(..., THRESH_OTSU) may return
OtsuCuts == {0, 128}

(***************************************************************************)
(* getEdgePixels (lines 173-185).                                          *)
(***************************************************************************)
GradMag(p) == Hypot(p[2][1], p[2][2])

RECURSIVE SeqMax(_, _)
SeqMax(s, k) == IF k = 0 THEN 0 ELSE Max2(s[k], SeqMax(s, k - 1))

\* Gmax = np.max(gradientImg): 0 for a flat image
Gmax(field) == SeqMax([k \in 1 .. Len(field) |-> GradMag(field[k])], Len(field))

\* gradientImg > Gmax * (cut / 255), for the pixels of non-zero gradient; a
\* pixel of zero gradient never passes since t >= 0
IsEdge(p, field, cut) == 255 * GradMag(p) > Gmax(field) * cut

RECURSIVE Filter(_, _, _, _)
Filter(s, k, field, cut) ==
  IF k = 0 THEN <<>>
  ELSE LET rest == Filter(s, k - 1, field, cut)
       IN  IF IsEdge(s[k], field, cut)
           THEN Append(rest, [x |-> s[k][1][2], y |-> s[k][1][1],
                              gx |-> s[k][2][1], gy |-> s[k][2][2],
                              g |-> GradMag(s[k])])
           ELSE rest

\* Ey, Ex = np.nonzero(gradientImg > t): in raster order
getEdgePixels(field, cut) == Filter(field, Len(field), field, cut)

(***************************************************************************)
(* chaccum: radius samples and weights (lines 245-260).                    *)
(***************************************************************************)
\* K of np.arange(min, max + 0.0001, 0.5)
NumRadii(rr) == IF rr[2] >= rr[1] THEN rr[2] - rr[1] + 1 ELSE 0

\* np.arange(radiusRange[0], radiusRange[1]+0.0001, 0.5), in half units
RadiusArange(rr) == [j \in 1 .. NumRadii(rr) |-> rr[1] + j - 1]

\* RR: radiusRange for 'bright', -radiusRange for 'dark'
RRof(rr, pol) ==
  [j \in 1 .. NumRadii(rr) |->
     IF pol = "bright" THEN RadiusArange(rr)[j] ELSE -RadiusArange(rr)[j]]

\* lnR[-1] - lnR[0] = 0 (one sample) or lnR[0] not finite (minRadius <= 0):
\* phi, Opca and w0 are NaN throughout
WeightsNaN(rr) == NumRadii(rr) >= 1 /\ (NumRadii(rr) = 1 \/ rr[1] <= 0)

\* w0 = exp(i*phi) / (2*pi*radius), tabulated in units of 1/Scale
W0(rr) ==
  CASE rr = <<2, 4>> -> << <<-16, 0>>, <<9, 5>>, <<-8, 0>> >>
    [] rr = <<2, 3>> -> << <<-16, 0>>, <<-11, 0>> >>
    [] OTHER -> [j \in 1 .. NumRadii(rr) |-> Zero]

\* xcStep = int(maxNumElemNHoodMat // RR.shape[0])
XcStep(cap, rr) == cap \div NumRadii(rr)

(***************************************************************************)
(* chaccum: one chunk (lines 269-307) and accum (lines 202-222).           *)
(***************************************************************************)
\* Ex[i : min(i+xcStep-1, lenE)] as the 0-based half-open slice [lo, hi)
ChunkSlice(ii, step, lenE) ==
  LET hi == Min2(ii + step - 1, lenE)
  IN  <<ii, Max2(hi, ii)>>

\* candidate centre of edge pixel e for the signed radius rr2 (half units):
\* round(Ex + (-RR) * Gx/G), round(Ey + (-RR) * Gy/G)
Candidate(e, rr2) ==
  [xc |-> NpRound(2 * e.g * e.x - rr2 * e.gx, 2 * e.g),
   yc |-> NpRound(2 * e.g * e.y - rr2 * e.gy, 2 * e.g)]

\* line 293
InsideTest(xc, yc, m, n) == (xc >= 1) /\ (xc <= n) /\ (yc >= 1) /\ (yc < m)

\* the (pixel, radius) votes of a slice, pixel-major as the matrices xc, yc, w
VotesOf(edges, slice, rr, pol) ==
  LET k == NumRadii(rr)
      cnt == (slice[2] - slice[1]) * k
  IN  Array([v \in 1 .. cnt |->
               LET e == edges[slice[1] + 1 + ((v - 1) \div k)]
                   j == 1 + ((v - 1) % k)
                   c == Candidate(e, RRof(rr, pol)[j])
               IN  [xc |-> c.xc, yc |-> c.yc, j |-> j]])

\* groupby([0, 1]).sum() of the weights written to result[y - 1, x - 1];
\* the sum skips NaN weights
RECURSIVE GroupSum(_, _, _, _, _, _)
GroupSum(votes, v, cell, rr, m, n) ==
  IF v = 0 THEN Zero
  ELSE LET rest == GroupSum(votes, v - 1, cell, rr, m, n)
           vt == votes[v]
       IN  IF /\ InsideTest(vt.xc, vt.yc, m, n)
              /\ <<vt.yc - 1, vt.xc - 1>> = cell
              /\ ~WeightsNaN(rr)
           THEN CAdd(rest, W0(rr)[vt.j])
           ELSE rest

accum(votes, rr, m, n) ==
  Array([cell \in Cells(m, n) |-> GroupSum(votes, Len(votes), cell, rr, m, n)])

MatAdd(a, b) == [c \in DOMAIN a |-> CAdd(a[c], b[c])]

(***************************************************************************)
(* The call imfindcircles(A, radiusRange, ObjectPolarity, sensitivity):    *)
(* the part that runs inside chaccum.                                      *)
(***************************************************************************)
Init ==
  /\ M = ImgRows
  /\ N = ImgCols
  /\ Gfield \in GradientFields(ImgRows, ImgCols)
  /\ radiusRange \in RadiusRanges
  /\ objPolarity \in Polarities
  /\ sensitivity \in {95, 100}
  /\ maxNumElemNHoodMat \in WorkingSetCaps
  /\ pc = "start"
  /\ err = ""
  /\ E = <<>>
  /\ i = 0
  /\ chunks = <<>>
  /\ accumMatrix = ZeroMatrix(ImgRows, ImgCols)
  /\ accumComplex = ZeroMatrix(ImgRows, ImgCols)
  /\ regions = <<>>
  /\ centers = <<>>
  /\ metric = <<>>
  /\ r_estimated = <<>>
  /\ detected = {}

\* lines 233-242: gradient, edge pixels
EdgeStep ==
  /\ pc = "start"
  /\ \E cut \in OtsuCuts : E' = getEdgePixels(Gfield, cut)
  /\ pc' = "edges"
  /\ UNCHANGED <<M, N, Gfield, radiusRange, objPolarity, sensitivity,
                 maxNumElemNHoodMat, err, i, chunks, accumMatrix,
                 accumComplex, regions, centers, metric, r_estimated, detected>>

\* lines 245-264: radius samples, weights, xcStep, the zero accumulator.
\* lnR[0] of an empty arange raises IndexError (line 255); a step of 0 makes
\* range() raise ValueError (line 266).
SetupStep ==
  /\ pc = "edges"
  /\ IF NumRadii(radiusRange) = 0
     THEN pc' = "error" /\ err' = "IndexError"
     ELSE IF XcStep(maxNumElemNHoodMat, radiusRange) = 0
     THEN pc' = "error" /\ err' = "ValueError"
     ELSE pc' = "loop" /\ err' = err
  /\ i' = 0
  /\ accumMatrix' = ZeroMatrix(M, N)
  /\ UNCHANGED <<M, N, Gfield, radiusRange, objPolarity, sensitivity,
                 maxNumElemNHoodMat, E, chunks, accumComplex, regions,
                 centers, metric, r_estimated, detected>>

\* one pass of the body of `for i in range(0, lenE+1, xcStep)` (lines 266-309)
ChunkStep ==
  /\ pc = "loop"
  /\ i < Len(E) + 1
  /\ LET step == XcStep(maxNumElemNHoodMat, radiusRange)
         slice == ChunkSlice(i, step, Len(E))
         votes == VotesOf(E, slice, radiusRange, objPolarity)
     IN  /\ accumMatrix' = MatAdd(accumMatrix, accum(votes, radiusRange, M, N))
         /\ chunks' = Append(chunks, slice)
         /\ i' = i + step
  /\ UNCHANGED <<M, N, Gfield, radiusRange, objPolarity, sensitivity,
                 maxNumElemNHoodMat, pc, err, E, accumComplex, regions,
                 centers, metric, r_estimated, detected>>

\* loop exhausted: return accumMatrix, gradientImg (line 311, received line 360)
ReturnStep ==
  /\ pc = "loop"
  /\ i >= Len(E) + 1
  /\ pc' = "ret"
  /\ accumComplex' = accumMatrix
  /\ UNCHANGED <<M, N, Gfield, radiusRange, objPolarity, sensitivity,
                 maxNumElemNHoodMat, err, E, i, chunks, accumMatrix, regions,
                 centers, metric, r_estimated, detected>>

(***************************************************************************)
(* imfindcircles lines 363-365: threshold and magnitude.                   *)
(***************************************************************************)
\* accumThresh = 1 - sensitivity, in units of 1/(25*Scale)
AccumThresh(sens) == (25 * Scale * (100 - sens)) \div 100

\* abs(accumMatrix): a real matrix, kept as complex numbers of imaginary part 0
CAbs(z) == <<Isqrt(z[1] * z[1] + z[2] * z[2]), 0>>

MatAbs(a) == [c \in DOMAIN a |-> CAbs(a[c])]

(***************************************************************************)
(* chcenters (lines 315-342).                                              *)
(***************************************************************************)
medFiltSize == 5

\* cv2 border rule BORDER_REFLECT_101 (the default of filter2D)
RECURSIVE BorderInterpolate(_, _)
BorderInterpolate(p, len) ==
  IF len = 1 THEN 0
  ELSE IF p >= 0 /\ p < len THEN p
  ELSE IF p < 0 THEN BorderInterpolate(-p, len)
  ELSE BorderInterpolate(2 * len - 2 - p, len)

RECURSIVE SumTo(_, _)
SumTo(f, k) == IF k = 0 THEN 0 ELSE f[k] + SumTo(f, k - 1)

\* cv2.filter2D with the 5x5 box kernel np.ones((5,5))/25, on the real parts
\* of the magnitude matrix: 25 times the average, i.e. the sum over the
\* window, taken along the rows and then along the columns
filter2D(a, m, n) ==
  LET h == medFiltSize \div 2
      w == medFiltSize
      rows == Array([c \in Cells(m, n) |->
                SumTo([k \in 1 .. w |->
                         a[<<c[1], BorderInterpolate(c[2] - h + k - 1, n)>>][1]],
                      w)])
  IN  Array([c \in Cells(m, n) |->
        SumTo([k \in 1 .. w |->
                 rows[<<BorderInterpolate(c[1] - h + k - 1, m), c[2]>>]],
              w)])

\* np.spacing: one step of the grid
Spacing(t) == 1

\* suppThreshold = np.max(suppThreshold - np.spacing(suppThreshold), 0): the
\* second argument of np.max is the axis, so nothing is clamped
SuppThreshold(t) == t - Spacing(t)

\* Hd - suppThreshold.  For accumThresh = 0 the threshold is the negative
\* subnormal -spacing(0): adding it changes a float only if that float is 0
Seed(h, supp) == IF supp < 0 /\ h # 0 THEN h ELSE h - supp

\* the 3x3 window around a cell, cut at the border of the image
Neighbours(c, m, n) ==
  (Max2(0, c[1] - 1) .. Min2(m - 1, c[1] + 1)) \X
  (Max2(0, c[2] - 1) .. Min2(n - 1, c[2] + 1))

SetMax(S) ==
  LET x == CHOOSE y \in S : \A z \in S : y >= z
  IN  x

SetMin(S) ==
  LET x == CHOOSE y \in S : \A z \in S : y <= z
  IN  x

\* scipy maximum_filter(size=3); also the elementary dilation of reconstruction
MaxFilter3(a, m, n) ==
  Array([c \in Cells(m, n) |-> SetMax({a[d] : d \in Neighbours(c, m, n)})])

\* skimage reconstruction by dilation refuses a seed above the mask
SeedAboveMask(seed, mask) == \E c \in DOMAIN seed : seed[c] > mask[c]

\* skimage.morphology.reconstruction(seed, mask, 'dilation'), default 3x3
\* footprint: dilate, cut at the mask, until nothing changes
RECURSIVE Reconstruct(_, _, _, _)
Reconstruct(cur, mask, m, n) ==
  LET dil == MaxFilter3(cur, m, n)
      nxt == Array([c \in Cells(m, n) |-> Min2(dil[c], mask[c])])
  IN  IF nxt = cur THEN cur ELSE Reconstruct(nxt, mask, m, n)

\* bw = lm > np.max(lm)/3
BwMask(lm) ==
  LET top == SetMax({lm[c] : c \in DOMAIN lm})
  IN  {c \in DOMAIN lm : 3 * lm[c] > top}

\* skimage label (8-connectivity): every pixel of bw gets the smallest raster
\* index of its connected component
RECURSIVE Propagate(_, _, _, _)
Propagate(lab, bw, m, n) ==
  LET nxt == Array([c \in bw |->
                      SetMin({lab[d] : d \in Neighbours(c, m, n) \cap bw})])
  IN  IF nxt = lab THEN lab ELSE Propagate(nxt, bw, m, n)

ComponentOf(bw, m, n) ==
  Propagate(Array([c \in bw |-> Raster(c, n)]), bw, m, n)

\* the k-th smallest element of a set of integers
RECURSIVE KthSmallest(_, _)
KthSmallest(S, k) ==
  IF k = 1 THEN SetMin(S) ELSE KthSmallest(S \ {SetMin(S)}, k - 1)

RECURSIVE SetSum(_, _)
SetSum(S, coord) ==
  IF S = {} THEN 0
  ELSE LET c == CHOOSE d \in S : TRUE
       IN  c[coord] + SetSum(S \ {c}, coord)

\* regionprops_table(label_bw, ['label', 'centroid']) and the metric sampled
\* at the truncated centroid, one row per label, labels in raster order of
\* their first pixel.  A centroid coordinate is the fraction <<sum, count>>.
RegionTable(hd, bw, m, n) ==
  LET comp == ComponentOf(bw, m, n)
      ids == {comp[c] : c \in bw}
  IN  [l \in 1 .. Cardinality(ids) |->
         LET px == {c \in bw : comp[c] = KthSmallest(ids, l)}
             cnt == Cardinality(px)
             c0 == <<SetSum(px, 1), cnt>>
             c1 == <<SetSum(px, 2), cnt>>
         IN  [label |-> l, centroid0 |-> c0, centroid1 |-> c1,
              metric |-> hd[<<c0[1] \div c0[2], c1[1] \div c1[2]>>]]]

\* np.asarray(., dtype=np.int64) of a non-negative fraction
Trunc(q) == q[1] \div q[2]

\* the index arrays np.argsort(metric) may return: the default sort is not
\* stable, so any permutation that puts the metric in ascending order
ArgSorts(mt) ==
  {p \in [1 .. Len(mt) -> 1 .. Len(mt)] :
     /\ \A a, b \in 1 .. Len(mt) : a # b => p[a] # p[b]
     /\ \A a \in 1 .. Len(mt) - 1 : mt[p[a]] <= mt[p[a + 1]]}

\* np.sort(metric)[::-1]
MetricSorted(mt) ==
  LET p == CHOOSE q \in ArgSorts(mt) : TRUE
  IN  [k \in 1 .. Len(mt) |-> mt[p[Len(mt) + 1 - k]]]

\* line 340 without np.fliplr: the centers stay in ascending order of metric
CentersSortedNoFliplr(tab, sortIndx) ==
  [k \in 1 .. Len(tab) |->
     <<tab[sortIndx[k]].centroid1, tab[sortIndx[k]].centroid0>>]

\* line 342 without np.flipud: the coordinate rows stay (centroid-0, centroid-1)
CentersSortedNoFlipud(tab, sortIndx) ==
  [k \in 1 .. Len(tab) |->
     <<tab[sortIndx[Len(tab) + 1 - k]].centroid0,
       tab[sortIndx[Len(tab) + 1 - k]].centroid1>>]

\* np.flipud(np.fliplr(np.stack((take(centers[0], sortIndx),
\*                               take(centers[1], sortIndx))))):
\* fliplr reverses the order, flipud swaps the two coordinate rows
CentersSorted(tab, sortIndx) ==
  [k \in 1 .. Len(tab) |->
     <<tab[sortIndx[Len(tab) + 1 - k]].centroid1,
       tab[sortIndx[Len(tab) + 1 - k]].centroid0>>]

\* Hd - suppThreshold (line 324), from the smoothed matrix of line 319
SeedOf(hd, t, m, n) ==
  Array([c \in Cells(m, n) |-> Seed(hd[c], SuppThreshold(t))])

\* reconstruction raises ValueError
ChcentersRaises(hd, t, m, n) == SeedAboveMask(SeedOf(hd, t, m, n), hd)

\* lines 324-334
ChcentersTable(hd, t, m, n) ==
  LET rec == Reconstruct(SeedOf(hd, t, m, n), hd, m, n)
      lm == MaxFilter3(rec, m, n)
  IN  RegionTable(rec, BwMask(lm), m, n)

(***************************************************************************)
(* chradiiphcode (lines 345-353).                                          *)
(***************************************************************************)
\* np.angle as an octant: floor(angle / (pi/4)), angle in (-pi, pi]
PhaseOctant(z) ==
  LET re == z[1]
      im == z[2]
  IN  IF im = 0 THEN (IF re >= 0 THEN 0 ELSE 4)
      ELSE IF im > 0
      THEN (IF re > 0 THEN (IF im < re THEN 0 ELSE 1)
            ELSE IF -re < im THEN 2 ELSE 3)
      ELSE (IF re > 0 THEN (IF -im <= re THEN -1 ELSE -2)
            ELSE IF -re <= -im THEN (IF re = 0 THEN -2 ELSE -3) ELSE -4)

\* exp((cenPhase + pi)/(2*pi) * (lnR[-1] - lnR[0]) + lnR[0]) in units of
\* 1/1000, tabulated over the octants -4..4; -1 stands for NaN
DecodeRadius(rr, ph) ==
  CASE rr = <<2, 4>> ->
         <<1000, 1091, 1189, 1297, 1414, 1542, 1682, 1834, 2000>>[ph + 5]
    [] rr = <<2, 3>> ->
         <<1000, 1052, 1107, 1164, 1225, 1288, 1355, 1426, 1500>>[ph + 5]
    [] rr = <<4, 4>> -> 2000
    [] OTHER -> -1

\* centers are (x, y): the cell read is accumMatrix[centers[1], centers[0]]
chradiiphcode(cs, a, rr) ==
  [k \in 1 .. Len(cs) |->
     DecodeRadius(rr, PhaseOctant(a[<<Trunc(cs[k][2]), Trunc(cs[k][1])>>]))]

(***************************************************************************)
(* imfindcircles after chaccum has returned (lines 363-377).               *)
(***************************************************************************)
\* lines 363-365: accumMatrix = abs(accumMatrix)
MagStep ==
  /\ pc = "ret"
  /\ accumMatrix' = MatAbs(accumMatrix)
  /\ pc' = "mag"
  /\ UNCHANGED <<M, N, Gfield, radiusRange, objPolarity, sensitivity,
                 maxNumElemNHoodMat, err, E, i, chunks, accumComplex, regions,
                 centers, metric, r_estimated, detected>>

\* line 367: centers, metric = chcenters(accumMatrix, accumThresh)
CentersStep ==
  /\ pc = "mag"
  /\ LET Hd == filter2D(accumMatrix, M, N)
     IN  IF ChcentersRaises(Hd, AccumThresh(sensitivity), M, N)
         THEN /\ pc' = "error"
              /\ err' = "ValueError"
              /\ UNCHANGED <<regions, centers, metric>>
         ELSE LET tab == Array(ChcentersTable(Hd, AccumThresh(sensitivity), M, N))
                  mt == Array([k \in 1 .. Len(tab) |-> tab[k].metric])
              IN  /\ pc' = "centers"
                  /\ err' = err
                  /\ regions' = tab
                  /\ metric' = MetricSorted(mt)
                  /\ \E sortIndx \in ArgSorts(mt) :
                       centers' = CentersSorted(tab, sortIndx)
  /\ UNCHANGED <<M, N, Gfield, radiusRange, objPolarity, sensitivity,
                 maxNumElemNHoodMat, E, i, chunks, accumMatrix, accumComplex,
                 r_estimated, detected>>

\* idx2Keep = np.nonzero(metric >= accumThresh)
RECURSIVE Idx2Keep(_, _, _)
Idx2Keep(mt, k, t) ==
  IF k = 0 THEN <<>>
  ELSE IF mt[k] >= t THEN Append(Idx2Keep(mt, k - 1, t), k)
  ELSE Idx2Keep(mt, k - 1, t)

Take(s, idx) == [k \in 1 .. Len(idx) |-> s[idx[k]]]

\* lines 371-373
KeepStep ==
  /\ pc = "centers"
  /\ LET idx == Idx2Keep(metric, Len(metric), AccumThresh(sensitivity))
     IN  /\ centers' = Take(centers, idx)
         /\ metric' = Take(metric, idx)
  /\ pc' = "kept"
  /\ UNCHANGED <<M, N, Gfield, radiusRange, objPolarity, sensitivity,
                 maxNumElemNHoodMat, err, E, i, chunks, accumMatrix,
                 accumComplex, regions, r_estimated, detected>>

\* lines 375-377: the matrix handed to chradiiphcode is the variable
\* accumMatrix, which line 365 has replaced by its magnitude
RadiiStep ==
  /\ pc = "kept"
  /\ r_estimated' = chradiiphcode(centers, accumMatrix, radiusRange)
  /\ pc' = "done"
  /\ UNCHANGED <<M, N, Gfield, radiusRange, objPolarity, sensitivity,
                 maxNumElemNHoodMat, err, E, i, chunks, accumMatrix,
                 accumComplex, regions, centers, metric, detected>>

Next ==
  \/ EdgeStep
  \/ SetupStep
  \/ ChunkStep
  \/ ReturnStep
  \/ MagStep
  \/ CentersStep
  \/ KeepStep
  \/ RadiiStep

Spec == Init /\ [][Next]_vars

(***************************************************************************)
(* The stages after chaccum on their own: the accumulator chaccum returned *)
(* is drawn from sparse matrices of vote sums, and the caller may raise    *)
(* the sensitivity and detect again on the same accumulator.               *)
(***************************************************************************)
\* sums of votes of the range [1,2]: 50 * w0[0] and 30 * w0[1]
PeakValues == {<<-800, 0>>, <<270, 150>>}

\* the peaks lie on the first image row
PeakCells(m, n) == {c \in Cells(m, n) : c[1] = 0}

Accumulators(m, n) ==
  {[c \in Cells(m, n) |->
      IF \E a \in 1 .. Len(s) : s[a][1] = c
      THEN s[CHOOSE a \in 1 .. Len(s) : s[a][1] = c][2]
      ELSE Zero] :
   s \in {t \in UNION {[1 .. k -> PeakCells(m, n) \X PeakValues] :
                         k \in 0 .. MaxPeaks} :
            \A a \in 1 .. Len(t) - 1 :
               Raster(t[a][1], n) < Raster(t[a + 1][1], n)}}

InitC ==
  /\ M = AccRows
  /\ N = AccCols
  /\ Gfield = <<>>
  /\ radiusRange = <<2, 4>>
  /\ objPolarity = "bright"
  /\ sensitivity \in Sensitivities
  /\ maxNumElemNHoodMat = 1000000
  /\ pc = "ret"
  /\ err = ""
  /\ E = <<>>
  /\ i = 0
  /\ chunks = <<>>
  /\ accumComplex \in Accumulators(AccRows, AccCols)
  /\ accumMatrix = accumComplex
  /\ regions = <<>>
  /\ centers = <<>>
  /\ metric = <<>>
  /\ r_estimated = <<>>
  /\ detected = {}

\* the caller notes the number of circles found, raises the sensitivity and
\* runs the stages again on the same accumulator
RaiseSensitivity ==
  /\ pc = "done"
  /\ detected' = detected \cup {<<sensitivity, Len(metric)>>}
  /\ \E s \in Sensitivities : s > sensitivity /\ sensitivity' = s
  /\ pc' = "ret"
  /\ accumMatrix' = accumComplex
  /\ regions' = <<>>
  /\ centers' = <<>>
  /\ metric' = <<>>
  /\ r_estimated' = <<>>
  /\ UNCHANGED <<M, N, Gfield, radiusRange, objPolarity, maxNumElemNHoodMat,
                 err, E, i, chunks, accumComplex>>

NextC ==
  \/ MagStep
  \/ CentersStep
  \/ KeepStep
  \/ RadiiStep
  \/ RaiseSensitivity

SpecC == InitC /\ [][NextC]_vars

(***************************************************************************)
(* What the claims speak of.                                               *)
(***************************************************************************)
\* the accumulator cell under center k: centers are (x, y), the cell is
\* [row, col] = [int(y), int(x)]
CellOfCenter(k) == <<Trunc(centers[k][2]), Trunc(centers[k][1])>>

\* the call has returned centers, radii and metrics
Returned == pc = "done"

\* the radius range is one the specification calls invalid
InvalidRange(rr) == rr[1] <= 0 \/ rr[2] < rr[1] \/ NumRadii(rr) < 2

\* the accumulator all votes of the edge list give when cast in one chunk
OneChunkAccum ==
  MatAdd(ZeroMatrix(M, N),
         accum(VotesOf(E, <<0, Len(E)>>, radiusRange, objPolarity),
               radiusRange, M, N))

\* the sum of the weights of the votes whose rounded candidate is the cell
\* itself, (xc, yc) = (col, row), 0 <= xc < N, 0 <= yc < M
RECURSIVE OwnCellSum(_, _, _, _)
OwnCellSum(votes, v, cell, rr) ==
  IF v = 0 THEN Zero
  ELSE IF votes[v].yc = cell[1] /\ votes[v].xc = cell[2]
  THEN CAdd(OwnCellSum(votes, v - 1, cell, rr), W0(rr)[votes[v].j])
  ELSE OwnCellSum(votes, v - 1, cell, rr)

OwnCellAccum ==
  LET votes == VotesOf(E, <<0, Len(E)>>, radiusRange, objPolarity)
  IN  [cell \in Cells(M, N) |-> OwnCellSum(votes, Len(votes), cell, radiusRange)]

\* the numbers of circles of the calls made on this accumulator so far
Detections ==
  detected \cup (IF Returned THEN {<<sensitivity, Len(metric)>>} ELSE {})

\* one-to-one choices of a region for each returned center
RegionChoices ==
  {p \in [1 .. Len(centers) -> 1 .. Len(regions)] :
     \A a, b \in 1 .. Len(centers) : a # b => p[a] # p[b]}

(***************************************************************************)
(* Claims.                                                                 *)
(***************************************************************************)
\* C1: every returned radius is the one decoded from the phase of the complex
\* accumulator chaccum produced, read at the cell of that center.
C1_RadiusFromComplexPhase ==
  Returned =>
    \A k \in 1 .. Len(centers) :
       r_estimated[k] =
         DecodeRadius(radiusRange, PhaseOctant(accumComplex[CellOfCenter(k)]))

\* C2: the accumulator chaccum returns does not depend on the chunk step: it
\* is the one a single chunk holding every edge pixel gives.
C2_ChunkInvariance ==
  (pc = "ret" /\ ~InvalidRange(radiusRange)) => accumComplex = OneChunkAccum

\* C3: centers, radii and metrics have the same length and are co-indexed:
\* entry k of each belongs to one and the same labeled region, the radius is
\* the one decoded at centers[k], every metric is at least 1 - sensitivity
\* and the metrics descend.
C3_CoIndexed ==
  Returned =>
    /\ Len(centers) = Len(metric)
    /\ Len(r_estimated) = Len(metric)
    /\ \E p \in RegionChoices :
         \A k \in 1 .. Len(centers) :
            /\ centers[k] = <<regions[p[k]].centroid1, regions[p[k]].centroid0>>
            /\ metric[k] = regions[p[k]].metric
    /\ \A k \in 1 .. Len(centers) :
         /\ r_estimated[k] =
              DecodeRadius(radiusRange, PhaseOctant(accumMatrix[CellOfCenter(k)]))
         /\ metric[k] >= AccumThresh(sensitivity)
    /\ \A k \in 1 .. Len(metric) - 1 : metric[k] >= metric[k + 1]

\* C3 witness: two circles of different metric have been returned.
C3_Witness ==
  Returned /\ Len(centers) >= 2 /\ metric[1] > metric[2]
    /\ centers[1] # centers[2]

C5_FlatImageNoError ==
  (Gfield = <<>> /\ ~InvalidRange(radiusRange)) =>
    /\ pc # "error"
    /\ Returned => (centers = <<>> /\ r_estimated = <<>> /\ metric = <<>>)

\* C6: with an invalid radius range chaccum ends in an error before the
\* chunk loop: it never takes a chunk and never returns an accumulator.
C6_InvalidRangeFailsFast ==
  InvalidRange(radiusRange) =>
    (pc \in {"start", "edges", "error"} /\ chunks = <<>>)

\* C7: of two calls on the same accumulator, the one with the higher
\* sensitivity returns at least as many circles.
C7_SensitivityMonotone ==
  \A d1, d2 \in Detections : d1[1] < d2[1] => d1[2] <= d2[2]

\* C8: every vote whose rounded candidate (xc, yc) lies in the image is added
\* once to cell [yc][xc], every other vote is discarded (all edge pixels in
\* one chunk, finite weights).
C8_VotesLandOnOwnCell ==
  (pc = "ret" /\ XcStep(maxNumElemNHoodMat, radiusRange) > Len(E) + 1
     /\ ~WeightsNaN(radiusRange)) =>
    accumComplex = OwnCellAccum

\* C9: the chunks of the loop partition the edge list: every index belongs to
\* exactly one chunk, every chunk but the last holds xcStep pixels and the
\* last at most xcStep.
C9_ChunksPartition ==
  (pc = "ret" /\ ~InvalidRange(radiusRange)) =>
    LET step == XcStep(maxNumElemNHoodMat, radiusRange)
    IN  /\ \A e \in 0 .. Len(E) - 1 :
             Cardinality({c \in 1 .. Len(chunks) :
                            chunks[c][1] <= e /\ e < chunks[c][2]}) = 1
        /\ \A c \in 1 .. Len(chunks) - 1 : chunks[c][2] - chunks[c][1] = step
        /\ \A c \in 1 .. Len(chunks) : chunks[c][2] - chunks[c][1] <= step

\* C10: of two labeled regions of equal metric, the one of smaller label
\* comes first in the centers chcenters returns.
C10_StableTies ==
  pc = "centers" =>
    \A a, b \in 1 .. Len(regions) :
       (a < b /\ regions[a].metric = regions[b].metric
          /\ regions[a].centroid1 # regions[b].centroid1) =>
         \E ka, kb \in 1 .. Len(centers) :
            /\ ka < kb
            /\ centers[ka] = <<regions[a].centroid1, regions[a].centroid0>>
            /\ centers[kb] = <<regions[b].centroid1, regions[b].centroid0>>

====
